---------------------------- MODULE Spec2Model ----------------------------
(***************************************************************************)
(* A model of src/tictactoe_minimax.py: the 3x3 board, the win/full        *)
(* queries, the exhaustive minimax search (ai, minimax) and the console    *)
(* game loop (main, make_play, set_player).                                *)
(*                                                                         *)
(* The board is the list of lists of the source, board[row][col] with row  *)
(* and col in 0..2 and cells "-", "X", "O".  The search mutates the one    *)
(* board it is given and reverts it; the operators below therefore thread  *)
(* the board through every call and return it next to the score, so that   *)
(* "the board is restored" is a property of the model and not built in.    *)
(***************************************************************************)
EXTENDS Integers, Sequences, FiniteSets, TLC

VARIABLES
  board,      \* Board.board of the game board (src 49-51)
  pc,         \* position of the running program / harness
  game_type,  \* main: game_type (src 276)
  p1,         \* main: p1, a Player (name, symbol)
  p2,         \* main: p2, a Player (name, symbol)
  turn,       \* main: turn, 1 or -1
  call,       \* the last application of ai / minimax / game_state and its result
  stack,      \* call stack of the stepwise search (frames of ai and minimax)
  ret         \* value and entry board of the call of the stepwise search that returned last

vars == <<board, pc, game_type, p1, p2, turn, call, stack, ret>>

-----------------------------------------------------------------------------
(* Bounds of the model (not program constants).                            *)

\* Largest number of Empty cells of a board handed to the stepwise search.
MaxEmpty == 3

\* The same for the stepwise search checked for termination under fairness.
MaxEmptyFair == 2

\* Largest number of Empty cells of a board without a completed line on
\* which minimax is evaluated as a function.
MaxEvalEmpty == 2

\* Largest depth argument handed to minimax when evaluated as a function.
MaxDepth == 1

\* Largest number of Empty cells of a board on which the harness calls ai.
MaxAiEmpty == 7

-----------------------------------------------------------------------------
(* Board state: class Board.                                               *)

Idx == 0..2

Cells == {"-", "X", "O"}

\* Board.__init__
EmptyBoard == [r \in Idx |-> [c \in Idx |-> "-"]]

Boards == [Idx -> [Idx -> Cells]]

\* What game_state returns when no line is complete: (False, None).
NoWinner == <<FALSE, "None">>

\* One pass of the loop "for i in range(3)" of game_state: row i for X, row i
\* for O, column i for X, column i for O, in that order; NoWinner when the
\* pass returns nothing.
RowColPass(b, i) ==
  IF b[i][0] = "X" /\ b[i][1] = "X" /\ b[i][2] = "X" THEN <<TRUE, "X">>
  ELSE IF b[i][0] = "O" /\ b[i][1] = "O" /\ b[i][2] = "O" THEN <<TRUE, "O">>
  ELSE IF b[0][i] = "X" /\ b[1][i] = "X" /\ b[2][i] = "X" THEN <<TRUE, "X">>
  ELSE IF b[0][i] = "O" /\ b[1][i] = "O" /\ b[2][i] = "O" THEN <<TRUE, "O">>
  ELSE NoWinner

\* DiagPass with the second diagonal, (0,2) (1,1) (2,0), left out.
DiagPassOneDiagonal(b) ==
  IF b[0][0] = "X" /\ b[1][1] = "X" /\ b[2][2] = "X" THEN <<TRUE, "X">>
  ELSE IF b[0][0] = "O" /\ b[1][1] = "O" /\ b[2][2] = "O" THEN <<TRUE, "O">>
  ELSE NoWinner

\* The diagonal checks that follow the loop.
DiagPass(b) ==
  IF (b[0][0] = "X" /\ b[1][1] = "X" /\ b[2][2] = "X")
       \/ (b[0][2] = "X" /\ b[1][1] = "X" /\ b[2][0] = "X") THEN <<TRUE, "X">>
  ELSE IF (b[0][0] = "O" /\ b[1][1] = "O" /\ b[2][2] = "O")
       \/ (b[0][2] = "O" /\ b[1][1] = "O" /\ b[2][0] = "O") THEN <<TRUE, "O">>
  ELSE NoWinner

\* Board.game_state
game_state(b) ==
  IF RowColPass(b, 0)[1] THEN RowColPass(b, 0)
  ELSE IF RowColPass(b, 1)[1] THEN RowColPass(b, 1)
  ELSE IF RowColPass(b, 2)[1] THEN RowColPass(b, 2)
  ELSE DiagPass(b)

\* check_pos that reports every position open.
CheckPosAcceptsAll(b, x, y) == TRUE

\* Board.check_pos
check_pos(b, x, y) == b[x][y] = "-"

\* Board.board_full
board_full(b) == \A r \in Idx : \A c \in Idx : b[r][c] # "-"

\* The assignment self.board[x][y] = symbol of set_player.
Place(b, r, c, m) == [b EXCEPT ![r][c] = m]

NumEmpty(b) == Cardinality({rc \in Idx \X Idx : b[rc[1]][rc[2]] = "-"})

-----------------------------------------------------------------------------
(* Search engine: minimax and ai, as operators.  The loops                  *)
(* "for row in range(3): for col in range(3)" are walked by the cell number *)
(* k = 3*row + col, k = 0..8 in row-major order (row = k \div 3,            *)
(* col = k % 3); k = 9 ends the loop.  A speculative placement is           *)
(* [b EXCEPT ![row][col] = mark] and its revert [b EXCEPT ![row][col] = "-"].*)

\* "Impossibly low score set for the maximizing player" (ai and minimax).
LowScore == -10000

\* "Impossibly high score set for the minimizing player".
HighScore == 10000

\* "minimax did not return in its terminal block": the block's result is the
\* one-element tuple <<score>> when it returns and the empty tuple otherwise.
NoScore == <<>>

\* TerminalScore with the two winning scores exchanged.
TerminalScoreExchanged(b, gs) ==
  IF board_full(b) \/ gs[1]
  THEN IF gs[1] = TRUE /\ gs[2] = "X" THEN <<10>>
       ELSE IF gs[1] = TRUE /\ gs[2] = "O" THEN <<-10>>
       ELSE IF gs[1] = FALSE THEN <<0>>
       ELSE NoScore
  ELSE NoScore

\* TerminalScore with the block entered on a full board only: a completed
\* line does not stop the search.
TerminalScoreFullOnly(b, gs) ==
  IF board_full(b)
  THEN IF gs[1] = TRUE /\ gs[2] = "X" THEN <<-10>>
       ELSE IF gs[1] = TRUE /\ gs[2] = "O" THEN <<10>>
       ELSE IF gs[1] = FALSE THEN <<0>>
       ELSE NoScore
  ELSE NoScore

\* The terminal block of minimax: the score it returns there, or NoScore when
\* the block is not entered or none of its three branches is taken.
TerminalScore(b, gs) ==
  IF board_full(b) \/ gs[1]
  THEN IF gs[1] = TRUE /\ gs[2] = "X" THEN <<-10>>
       ELSE IF gs[1] = TRUE /\ gs[2] = "O" THEN <<10>>
       ELSE IF gs[1] = FALSE THEN <<0>>
       ELSE NoScore
  ELSE NoScore

\* Revert with the assignment left out.
RevertForgotten(b, k) == b

\* state.board[row][col] = "-" for the cell numbered k: "Removes symbol from
\* the board for the next loop".
Revert(b, k) == [b EXCEPT ![k \div 3][k % 3] = "-"]

\* NextCell when the loop stays on the cell it has just tried.
NextCellStuck(k) == k

\* NextCell with the last row's column loop one cell short ("range(2)"): the
\* scan leaves the loops after cell (2,1).
NextCellSkipsLast(k) == IF k >= 7 THEN 9 ELSE k + 1

\* The for loops' step from the cell numbered k to the next one.
NextCell(k) == k + 1

\* LayerFold with the maximizing layer's comparison copied into the
\* minimizing layer.
LayerFoldCopied(max_or_min, score, best_score) ==
  IF score > best_score THEN score ELSE best_score

\* The fold of a child's score into best_score: "if(score > best_score)" in a
\* maximizing layer, "if(score < best_score)" in a minimizing layer.
LayerFold(max_or_min, score, best_score) ==
  IF max_or_min
  THEN (IF score > best_score THEN score ELSE best_score)
  ELSE (IF score < best_score THEN score ELSE best_score)

RECURSIVE minimax(_, _, _), MinimaxLoop(_, _, _, _, _), MinimaxAfter(_, _, _, _, _)

\* The rest of one loop iteration once the recursive call has returned child
\* (its score and the board as the call left it): revert the cell, fold the
\* score, go on with the next cell.
MinimaxAfter(child, depth, max_or_min, k, best_score) ==
  MinimaxLoop(Revert(child.board, k), depth, max_or_min, NextCell(k),
              LayerFold(max_or_min, child.score, best_score))

\* The loop of a layer from cell k on: an Empty cell gets the layer's mark
\* ("O" when maximizing, "X" when minimizing) and minimax is called with
\* depth + 1 and the other layer.  Returns best_score and the board.
MinimaxLoop(b, depth, max_or_min, k, best_score) ==
  IF k = 9 THEN [score |-> best_score, board |-> b]
  ELSE IF b[k \div 3][k % 3] = "-"
       THEN MinimaxAfter(minimax([b EXCEPT ![k \div 3][k % 3] = IF max_or_min THEN "O" ELSE "X"],
                                 depth + 1, ~max_or_min),
                         depth, max_or_min, k, best_score)
       ELSE MinimaxLoop(b, depth, max_or_min, NextCell(k), best_score)

\* minimax(state, depth, max_or_min): the score and the board on return.  When
\* the terminal block does not return, the layer's loop runs.
minimax(b, depth, max_or_min) ==
  LET t == TerminalScore(b, game_state(b)) IN
  IF t # NoScore THEN [score |-> t[1], board |-> b]
  ELSE MinimaxLoop(b, depth, max_or_min, 0, IF max_or_min THEN LowScore ELSE HighScore)

\* best_move before its first assignment (reading it raises UnboundLocalError).
Unbound == <<>>

\* The locals of ai at its entry.  scores is not a variable of the code: it
\* lists, in loop order, <<row, col, score>> for every cell ai scored.
AiStart == [best_score |-> LowScore, best_move |-> Unbound, scores |-> <<>>]

\* AiFold with best_move = [col, row].
AiFoldSwapped(score, row, col, best) ==
  IF score > best.best_score
  THEN [best_score |-> score, best_move |-> <<col, row>>,
        scores |-> Append(best.scores, <<row, col, score>>)]
  ELSE [best EXCEPT !.scores = Append(best.scores, <<row, col, score>>)]

\* AiFold with "if(score >= best_score)": a later cell of equal score
\* replaces the chosen move.
AiFoldLastWins(score, row, col, best) ==
  IF score >= best.best_score
  THEN [best_score |-> score, best_move |-> <<row, col>>,
        scores |-> Append(best.scores, <<row, col, score>>)]
  ELSE [best EXCEPT !.scores = Append(best.scores, <<row, col, score>>)]

\* if(score > best_score): best_score = score; best_move = [row, col]
AiFold(score, row, col, best) ==
  IF score > best.best_score
  THEN [best_score |-> score, best_move |-> <<row, col>>,
        scores |-> Append(best.scores, <<row, col, score>>)]
  ELSE [best EXCEPT !.scores = Append(best.scores, <<row, col, score>>)]

RECURSIVE AiLoop(_, _, _, _), AiAfter(_, _, _, _)

\* The rest of one loop iteration of ai once minimax has returned child.
AiAfter(child, symbol, k, best) ==
  AiLoop(Revert(child.board, k), symbol, NextCell(k),
         AiFold(child.score, k \div 3, k % 3, best))

\* The loop of ai from cell k on.
AiLoop(b, symbol, k, best) ==
  IF k = 9
  THEN [best_score |-> best.best_score, best_move |-> best.best_move,
        scores |-> best.scores, board |-> b]
  ELSE IF b[k \div 3][k % 3] = "-"
       THEN AiAfter(minimax([b EXCEPT ![k \div 3][k % 3] = symbol], 0, FALSE),
                    symbol, k, best)
       ELSE AiLoop(b, symbol, NextCell(k), best)

\* ai(state, player): the move returned (Unbound: the return statement raises
\* UnboundLocalError), its score, and the board on return.
ai(b, symbol) == AiLoop(b, symbol, 0, AiStart)

-----------------------------------------------------------------------------
(* The program: main, make_play, set_player.                               *)

\* What is typed at the menu and the name prompts, <<answer, first name,
\* second name>>: a name is any string, and "Bot" is the one string the
\* program treats specially.  Answer "1" asks for one name only; any answer
\* other than "1" and "2" asks for none.
Entries ==
  {<<"1", "Ann", "">>, <<"1", "Bot", "">>,
   <<"2", "Ann", "Eve">>, <<"2", "Bot", "Eve">>,
   <<"3", "", "">>}

\* class Player
Player(name, symbol) == [name |-> name, symbol |-> symbol]

NoPlayer == Player("", "")

\* call when nothing has been called: fn names the function applied, board
\* the board it was applied to, symbol the player's symbol handed to ai,
\* args the <<depth, max_or_min>> handed to minimax, result what it returned.
NoCall == [fn |-> "none", board |-> EmptyBoard, symbol |-> "", args |-> <<>>, result |-> <<>>]

NoRet == [fn |-> "none", value |-> 0, entry |-> EmptyBoard]

\* The dictionary "moves" of make_play: key 1..9 to [row, col].
moves(move) == <<(move - 1) \div 3, (move - 1) % 3>>

\* The state after "game_board = Board()", before the first prompt.
Init ==
  /\ board = EmptyBoard
  /\ pc = "menu"
  /\ game_type = ""
  /\ p1 = NoPlayer
  /\ p2 = NoPlayer
  /\ turn = 0
  /\ call = NoCall
  /\ stack = <<>>
  /\ ret = NoRet

\* main, lines 275-298: the menu, the name prompts and the random first turn.
\* Any answer other than "1" or "2" ends the program (sys.exit).
Setup(answer, name1, name2, first) ==
  /\ pc = "menu"
  /\ game_type' = answer
  /\ IF answer = "1"
     THEN /\ p1' = Player(name1, "X")
          /\ p2' = Player("Bot", "O")
          /\ turn' = first
          /\ pc' = "loop"
     ELSE IF answer = "2"
     THEN /\ p1' = Player(name1, "X")
          /\ p2' = Player(name2, "O")
          /\ turn' = first
          /\ pc' = "loop"
     ELSE /\ pc' = "exit"
          /\ UNCHANGED <<p1, p2, turn>>
  /\ UNCHANGED <<board, call, stack, ret>>

\* The player whose turn it is (main, lines 302-307).
Mover == IF turn = 1 THEN p1 ELSE p2

\* EndOfTurn without the check of game_state (lines 309-317): only a full
\* board ends the game.
EndOfTurnIgnoresWin(b) ==
  IF board_full(b) = TRUE
  THEN pc' = "draw" /\ turn' = turn
  ELSE pc' = "loop" /\ turn' = turn * (-1)

\* main, lines 308-325, on the board b left by make_play: a win ends the game
\* (announced for the player whose turn it was), then a full board ends it as
\* a draw, else the turn passes.
EndOfTurn(b) ==
  IF game_state(b)[1]
  THEN pc' = "won" /\ turn' = turn
  ELSE IF board_full(b) = TRUE
       THEN pc' = "draw" /\ turn' = turn
       ELSE pc' = "loop" /\ turn' = turn * (-1)

\* One iteration of the main loop for a person: make_play prompts until the
\* number typed is in 1..9 and check_pos accepts its cell (the rejected
\* attempts change nothing), then set_player writes the symbol there.
HumanTurn(move) ==
  /\ pc = "loop"
  /\ Mover.name # "Bot"
  /\ check_pos(board, moves(move)[1], moves(move)[2])
  /\ board' = Place(board, moves(move)[1], moves(move)[2], Mover.symbol)
  /\ call' = NoCall
  /\ EndOfTurn(board')
  /\ UNCHANGED <<game_type, p1, p2, stack, ret>>

\* One iteration of the main loop for the player named "Bot": make_play calls
\* set_player, which calls ai and writes the symbol at the cell it returns.
\* An exception of ai is not caught anywhere: the program ends with it.
BotTurn ==
  /\ pc = "loop"
  /\ Mover.name = "Bot"
  /\ \E res \in {ai(board, Mover.symbol)} :
       /\ call' = [fn |-> "ai", board |-> board, symbol |-> Mover.symbol,
                  args |-> <<>>, result |-> res]
       /\ IF res.best_move = Unbound
          THEN /\ board' = res.board
               /\ pc' = "crash"
               /\ turn' = turn
          ELSE /\ board' = Place(res.board, res.best_move[1], res.best_move[2], Mover.symbol)
               /\ EndOfTurn(board')
  /\ UNCHANGED <<game_type, p1, p2, stack, ret>>

Next ==
  \/ \E e \in Entries, first \in {1, -1} : Setup(e[1], e[2], e[3], first)
  \/ \E move \in 1..9 : HumanTurn(move)
  \/ BotTurn

Spec == Init /\ [][Next]_vars

\* The single-player game (answer "1") of a person whose name is not "Bot":
\* the state main is in when it enters its loop, either side first.
InitSingle ==
  /\ board = EmptyBoard
  /\ pc = "loop"
  /\ game_type = "1"
  /\ p1 = Player("Ann", "X")
  /\ p2 = Player("Bot", "O")
  /\ turn \in {1, -1}
  /\ call = NoCall
  /\ stack = <<>>
  /\ ret = NoRet

NextSingle ==
  \/ \E move \in 1..9 : HumanTurn(move)
  \/ BotTurn

SpecSingle == InitSingle /\ [][NextSingle]_vars

\* The turn in progress is played: the player whose turn it is gets the
\* symbol onto some Empty cell of the board.
TurnPlayed ==
  /\ pc = "loop"
  /\ board' \in {Place(board, rc[1], rc[2], Mover.symbol) :
                  rc \in {xy \in Idx \X Idx : check_pos(board, xy[1], xy[2])}}

\* The single-player game that is played on: the bot's turn is computed
\* without waiting, and the person answers the prompts of make_play with a
\* move that check_pos accepts sooner or later, so the loop of main does not
\* stay at one turn forever while the game is not over.
SpecSingleFair == InitSingle /\ [][NextSingle]_vars /\ WF_board(TurnPlayed)

-----------------------------------------------------------------------------
(* ai as a function of the board: the two-player game of two persons        *)
(* (answer "2") reaches every board of alternating legal play, and CallAi   *)
(* applies ai for "O" to the board reached: a board of the running game on  *)
(* which "O" is to move, or the board of a finished game.                   *)

InitAi ==
  /\ board = EmptyBoard
  /\ pc = "loop"
  /\ game_type = "2"
  /\ p1 = Player("Ann", "X")
  /\ p2 = Player("Eve", "O")
  /\ turn \in {1, -1}
  /\ call = NoCall
  /\ stack = <<>>
  /\ ret = NoRet

CallAi ==
  /\ pc \in {"loop", "won", "draw"}
  /\ pc = "loop" => Mover.symbol = "O"
  /\ NumEmpty(board) <= MaxAiEmpty
  /\ \E res \in {ai(board, "O")} :
       /\ call' = [fn |-> "ai", board |-> board, symbol |-> "O", args |-> <<>>, result |-> res]
       /\ board' = res.board
  /\ pc' = "called"
  /\ UNCHANGED <<game_type, p1, p2, turn, stack, ret>>

NextAi ==
  \/ \E move \in 1..9 : HumanTurn(move)
  \/ CallAi

SpecAi == InitAi /\ [][NextAi]_vars

-----------------------------------------------------------------------------
(* The search step by step, on the one board it mutates.  stack holds the   *)
(* frames of the calls in progress (the last one is running); a frame keeps *)
(* the call's arguments and locals, where it is (at), and, for the claims,  *)
(* the board as it was when the call was entered (entry).  One step runs a  *)
(* call to its next call, return or raise: the terminal block of minimax,   *)
(* the scan of the loop to the next Empty cell with the placement and the   *)
(* call made there, the return at the end of the loop, and, after a call    *)
(* has returned, the revert with the fold.                                  *)

Frame(fn, symbol, max_or_min, depth, at, b) ==
  [fn |-> fn, symbol |-> symbol, max_or_min |-> max_or_min, depth |-> depth,
   k |-> 0, best_score |-> IF max_or_min THEN LowScore ELSE HighScore,
   best_move |-> Unbound, at |-> at, entry |-> b]

\* A call of ai(state, player): its loop starts at once, best_score = -10000.
AiFrame(symbol, b) == Frame("ai", symbol, TRUE, 0, "loop", b)

\* A call of minimax(state, depth, max_or_min), at its terminal block.
MinimaxFrame(depth, max_or_min, b) == Frame("minimax", "", max_or_min, depth, "entry", b)

Top == stack[Len(stack)]

Caller == SubSeq(stack, 1, Len(stack) - 1)

\* The number of the first Empty cell of b from cell k on in row-major order,
\* 9 when there is none: the cells the loop passes without doing anything.
ScanFrom(b, k) ==
  IF \E j \in k..8 : b[j \div 3][j % 3] = "-"
  THEN CHOOSE j \in k..8 : /\ b[j \div 3][j % 3] = "-"
                           /\ \A i \in k..(j - 1) : b[i \div 3][i % 3] # "-"
  ELSE 9

\* The boards handed to the stepwise search: every board over {"-","X","O"}
\* with at most n Empty cells.
SearchBoards(n) == {b \in Boards : NumEmpty(b) <= n}

\* The calls made on such a board: ai for "O", minimax for either layer.
TopFrames(b) ==
  {AiFrame("O", b)} \cup {MinimaxFrame(0, mm, b) : mm \in BOOLEAN}

SearchFrom(n) ==
  /\ board \in SearchBoards(n)
  /\ stack \in {<<f>> : f \in TopFrames(board)}
  /\ pc = "search"
  /\ game_type = ""
  /\ p1 = NoPlayer
  /\ p2 = NoPlayer
  /\ turn = 0
  /\ call = NoCall
  /\ ret = NoRet

InitSearch == SearchFrom(MaxEmpty)

InitSearchFair == SearchFrom(MaxEmptyFair)

\* The running call returns value: its frame is popped.
Returns(value) ==
  /\ stack' = Caller
  /\ ret' = [fn |-> Top.fn, value |-> value, entry |-> Top.entry]
  /\ pc' = IF Len(stack) = 1 THEN "done" ELSE "search"

\* minimax, lines 228-237, on a terminal board: return the terminal score.
MinimaxTerminal ==
  /\ pc = "search" /\ stack # <<>>
  /\ Top.fn = "minimax" /\ Top.at = "entry"
  /\ TerminalScore(board, game_state(board)) # NoScore
  /\ Returns(TerminalScore(board, game_state(board))[1])
  /\ UNCHANGED <<board, game_type, p1, p2, turn, call>>

\* minimax, lines 228-241 / 254-256, otherwise: enter the layer's loop.
MinimaxEnterLoop ==
  /\ pc = "search" /\ stack # <<>>
  /\ Top.fn = "minimax" /\ Top.at = "entry"
  /\ TerminalScore(board, game_state(board)) = NoScore
  /\ stack' = [stack EXCEPT ![Len(stack)].at = "loop"]
  /\ UNCHANGED <<board, pc, game_type, p1, p2, turn, call, ret>>

\* The loop of ai (198-204) or minimax (243-249, 258-264) at an Empty cell:
\* place the mark there and call minimax.
SearchCall ==
  /\ pc = "search" /\ stack # <<>>
  /\ Top.at = "loop"
  /\ ScanFrom(board, Top.k) < 9
  /\ LET k == ScanFrom(board, Top.k)
         mark == IF Top.fn = "ai" THEN Top.symbol
                 ELSE IF Top.max_or_min THEN "O" ELSE "X"
         b2 == [board EXCEPT ![k \div 3][k % 3] = mark]
         child == IF Top.fn = "ai" THEN MinimaxFrame(0, FALSE, b2)
                  ELSE MinimaxFrame(Top.depth + 1, ~Top.max_or_min, b2)
     IN /\ board' = b2
        /\ stack' = Append([stack EXCEPT ![Len(stack)].k = k,
                                         ![Len(stack)].at = "called"], child)
  /\ ret' = NoRet
  /\ UNCHANGED <<pc, game_type, p1, p2, turn, call>>

\* After the call has returned (205-208, 250-252, 265-267): revert the cell,
\* fold the score returned, go on with the next cell.
SearchResume ==
  /\ pc = "search" /\ stack # <<>>
  /\ Top.at = "called"
  /\ board' = Revert(board, Top.k)
  /\ stack' = [stack EXCEPT ![Len(stack)] =
                 IF Top.fn = "ai"
                 THEN [Top EXCEPT
                         !.best_score = AiFold(ret.value, Top.k \div 3, Top.k % 3,
                                               [best_score |-> Top.best_score,
                                                best_move |-> Top.best_move,
                                                scores |-> <<>>]).best_score,
                         !.best_move = AiFold(ret.value, Top.k \div 3, Top.k % 3,
                                              [best_score |-> Top.best_score,
                                               best_move |-> Top.best_move,
                                               scores |-> <<>>]).best_move,
                         !.k = NextCell(Top.k), !.at = "loop"]
                 ELSE [Top EXCEPT
                         !.best_score = LayerFold(Top.max_or_min, ret.value, Top.best_score),
                         !.k = NextCell(Top.k), !.at = "loop"]]
  /\ ret' = NoRet
  /\ UNCHANGED <<pc, game_type, p1, p2, turn, call>>

\* minimax at the end of its loop (253, 268): return best_score.
MinimaxReturn ==
  /\ pc = "search" /\ stack # <<>>
  /\ Top.fn = "minimax" /\ Top.at = "loop"
  /\ ScanFrom(board, Top.k) = 9
  /\ Returns(Top.best_score)
  /\ UNCHANGED <<board, game_type, p1, p2, turn, call>>

\* ai at the end of its loop (209) with best_move assigned: return it.
AiReturn ==
  /\ pc = "search" /\ stack # <<>>
  /\ Top.fn = "ai" /\ Top.at = "loop"
  /\ ScanFrom(board, Top.k) = 9
  /\ Top.best_move # Unbound
  /\ Returns(Top.best_move)
  /\ UNCHANGED <<board, game_type, p1, p2, turn, call>>

\* ai at the end of its loop (209) with best_move never assigned: the return
\* statement raises UnboundLocalError, which nothing catches.
AiRaise ==
  /\ pc = "search" /\ stack # <<>>
  /\ Top.fn = "ai" /\ Top.at = "loop"
  /\ ScanFrom(board, Top.k) = 9
  /\ Top.best_move = Unbound
  /\ stack' = Caller
  /\ pc' = "raised"
  /\ ret' = NoRet
  /\ UNCHANGED <<board, game_type, p1, p2, turn, call>>

NextSearch ==
  \/ MinimaxTerminal
  \/ MinimaxEnterLoop
  \/ SearchCall
  \/ SearchResume
  \/ MinimaxReturn
  \/ AiReturn
  \/ AiRaise

SpecSearch == InitSearch /\ [][NextSearch]_vars

\* The interpreter runs the search without pause until it returns or raises.
SpecSearchFair == InitSearchFair /\ [][NextSearch]_vars /\ WF_vars(NextSearch)

-----------------------------------------------------------------------------
(* The search step by step on the boards of a game.  The two-player game of *)
(* two persons reaches every board of alternating legal play that stops at  *)
(* the first win; CallSearch starts ai there, for the symbol of the player  *)
(* to move (O is the bot's symbol; X is the symbol ai gets when the first   *)
(* player is named "Bot") or, on the board of a finished game, for either   *)
(* symbol, on boards with at most MaxEmpty Empty cells.                     *)

CallSearch(symbol) ==
  /\ pc \in {"loop", "won", "draw"}
  /\ pc = "loop" => Mover.symbol = symbol
  /\ NumEmpty(board) <= MaxEmpty
  /\ stack' = <<AiFrame(symbol, board)>>
  /\ pc' = "search"
  /\ call' = [fn |-> "ai", board |-> board, symbol |-> symbol, args |-> <<>>, result |-> <<>>]
  /\ UNCHANGED <<board, game_type, p1, p2, turn, ret>>

NextPlaySearch ==
  \/ \E move \in 1..9 : HumanTurn(move)
  \/ \E symbol \in {"X", "O"} : CallSearch(symbol)
  \/ NextSearch

SpecPlaySearch == InitAi /\ [][NextPlaySearch]_vars

-----------------------------------------------------------------------------
(* The program when the name typed for the first player of a two-player     *)
(* game is "Bot": set_player calls ai for that player, whose symbol is X.   *)
(* The bot's turn is BotTurn while the board has more than MaxEmpty Empty   *)
(* cells, and is run step by step below that: BotSearchCall enters ai, the  *)
(* steps of the search follow, BotSearchPlace is ai's return to set_player, *)
(* which writes the symbol, and the rest of the loop's iteration.           *)

InitNamedBot ==
  /\ board = EmptyBoard
  /\ pc = "loop"
  /\ game_type = "2"
  /\ p1 = Player("Bot", "X")
  /\ p2 = Player("Eve", "O")
  /\ turn \in {1, -1}
  /\ call = NoCall
  /\ stack = <<>>
  /\ ret = NoRet

BotTurnEarly == NumEmpty(board) > MaxEmpty /\ BotTurn

\* make_play, set_player (159-160, 73-75): ai is entered on the game board.
BotSearchCall ==
  /\ pc = "loop"
  /\ Mover.name = "Bot"
  /\ NumEmpty(board) <= MaxEmpty
  /\ stack' = <<AiFrame(Mover.symbol, board)>>
  /\ pc' = "search"
  /\ call' = [fn |-> "ai", board |-> board, symbol |-> Mover.symbol, args |-> <<>>,
              result |-> <<>>]
  /\ UNCHANGED <<board, game_type, p1, p2, turn, ret>>

\* ai at the end of its loop (209) when called from set_player: the move is
\* returned and written (76) and main goes on (308-325); with best_move never
\* assigned the return statement raises and the program ends.
BotSearchPlace ==
  /\ pc = "search" /\ Len(stack) = 1
  /\ Top.fn = "ai" /\ Top.at = "loop"
  /\ ScanFrom(board, Top.k) = 9
  /\ stack' = <<>>
  /\ ret' = NoRet
  /\ IF Top.best_move = Unbound
     THEN /\ board' = board
          /\ pc' = "crash"
          /\ turn' = turn
     ELSE /\ board' = Place(board, Top.best_move[1], Top.best_move[2], Mover.symbol)
          /\ EndOfTurn(board')
  /\ UNCHANGED <<game_type, p1, p2, call>>

NextNamedBot ==
  \/ \E move \in 1..9 : HumanTurn(move)
  \/ BotTurnEarly
  \/ BotSearchCall
  \/ MinimaxTerminal
  \/ MinimaxEnterLoop
  \/ SearchCall
  \/ SearchResume
  \/ MinimaxReturn
  \/ BotSearchPlace

SpecNamedBot == InitNamedBot /\ [][NextNamedBot]_vars

-----------------------------------------------------------------------------
(* game_state and minimax as functions of the board: the board is any of    *)
(* the 3^9 boards over {"-","X","O"}.  game_state is applied to every one;  *)
(* minimax, for either layer and every depth argument up to MaxDepth, to    *)
(* every board on which game_state reports a win (it returns at once        *)
(* there) and to every other board with at most MaxEvalEmpty Empty cells.   *)

InitEval ==
  /\ board \in Boards
  /\ pc = "eval"
  /\ game_type = ""
  /\ p1 = NoPlayer
  /\ p2 = NoPlayer
  /\ turn = 0
  /\ call = NoCall
  /\ stack = <<>>
  /\ ret = NoRet

EvalGameState ==
  /\ pc = "eval"
  /\ call' = [fn |-> "game_state", board |-> board, symbol |-> "", args |-> <<>>,
              result |-> game_state(board)]
  /\ pc' = "evaluated"
  /\ UNCHANGED <<board, game_type, p1, p2, turn, stack, ret>>

EvalMinimax(depth, max_or_min) ==
  /\ pc = "eval"
  /\ game_state(board)[1] \/ NumEmpty(board) <= MaxEvalEmpty
  /\ \E res \in {minimax(board, depth, max_or_min)} :
       /\ call' = [fn |-> "minimax", board |-> board, symbol |-> "",
                   args |-> <<depth, max_or_min>>, result |-> res]
       /\ board' = res.board
  /\ pc' = "evaluated"
  /\ UNCHANGED <<game_type, p1, p2, turn, stack, ret>>

NextEval ==
  \/ EvalGameState
  \/ \E depth \in 0..MaxDepth, max_or_min \in BOOLEAN : EvalMinimax(depth, max_or_min)

SpecEval == InitEval /\ [][NextEval]_vars

-----------------------------------------------------------------------------
(* Reference notions the claims are stated against.  They are written      *)
(* independently of the code above: on board snapshots, with the lines as   *)
(* a set.                                                                   *)

\* The 8 lines: 3 rows, 3 columns, 2 diagonals.
Lines ==
  {{<<i, 0>>, <<i, 1>>, <<i, 2>>} : i \in Idx}
    \cup {{<<0, i>>, <<1, i>>, <<2, i>>} : i \in Idx}
    \cup {{<<0, 0>>, <<1, 1>>, <<2, 2>>}, {<<0, 2>>, <<1, 1>>, <<2, 0>>}}

\* Mark m owns the completed line l of board b.
Owns(b, m, l) == \A rc \in l : b[rc[1]][rc[2]] = m

HasLine(b, m) == \E l \in Lines : Owns(b, m, l)

EmptyCells(b) == {rc \in Idx \X Idx : b[rc[1]][rc[2]] = "-"}

\* A terminal board: a completed line, or no Empty cell.
Terminal(b) == HasLine(b, "X") \/ HasLine(b, "O") \/ EmptyCells(b) = {}

MaxOf(S) == CHOOSE x \in S : \A y \in S : x >= y

MinOf(S) == CHOOSE x \in S : \A y \in S : x <= y

RECURSIVE V(_, _)

\* The game value by backward induction, mover to move on b: -10 for an X
\* win, +10 for an O win, 0 for a full board without a line; O maximizes and
\* X minimizes over the Empty cells.
V(b, mover) ==
  IF HasLine(b, "X") THEN -10
  ELSE IF HasLine(b, "O") THEN 10
  ELSE IF EmptyCells(b) = {} THEN 0
  ELSE IF mover = "O"
       THEN MaxOf({V([b EXCEPT ![rc[1]][rc[2]] = "O"], "X") : rc \in EmptyCells(b)})
       ELSE MinOf({V([b EXCEPT ![rc[1]][rc[2]] = "X"], "O") : rc \in EmptyCells(b)})

\* The last call was ai for "O", entered on board call.board.
AiCalled == call.fn = "ai" /\ call.symbol = "O"

\* The move ai returned.
AiMove == call.result.best_move

-----------------------------------------------------------------------------
(* Claims.                                                                  *)

\* C1: in a single-player game (person X, bot O) from the empty board, with
\* either side first, every O move the cell ai returns and every X move any
\* legal move, game_state never reports a win for X in any reachable state:
\* a finished game is a draw or a win of O.
C1_NeverWinForX ==
  /\ game_state(board) # <<TRUE, "X">>
  /\ ~HasLine(board, "X")
  /\ pc = "won" => (game_state(board) = <<TRUE, "O">> /\ Mover = p2)
  /\ pc # "crash"

\* A game the person opened that was played to a full board and drawn.
C1_Witness ==
  /\ pc = "draw"
  /\ EmptyCells(board) = {}
  /\ Cardinality({rc \in Idx \X Idx : board[rc[1]][rc[2]] = "X"}) = 5

\* C3: on every non-terminal board of alternating legal play on which ai is
\* called, ai returns a pair (row, col) with both coordinates in 0..2 whose
\* cell was Empty when ai was called.
C3_MoveIsEmptyCell ==
  (AiCalled /\ ~Terminal(call.board)) =>
     /\ AiMove # Unbound
     /\ AiMove[1] \in Idx /\ AiMove[2] \in Idx
     /\ call.board[AiMove[1]][AiMove[2]] = "-"

\* ai has returned from a call on a running game's board with several Empty cells.
C3_Witness ==
  /\ AiCalled /\ ~Terminal(call.board)
  /\ NumEmpty(call.board) = MaxAiEmpty
  /\ AiMove # Unbound

\* C4: on every non-terminal board with O to move, the cell c ai returns is
\* optimal for the reference value V: V of the board with O at c and X to
\* move equals the maximum over the Empty cells e of V of the board with O
\* at e and X to move.
C4_MoveIsOptimal ==
  (AiCalled /\ ~Terminal(call.board)) =>
     /\ AiMove # Unbound
     /\ V([call.board EXCEPT ![AiMove[1]][AiMove[2]] = "O"], "X")
          = MaxOf({V([call.board EXCEPT ![rc[1]][rc[2]] = "O"], "X") :
                     rc \in EmptyCells(call.board)})

\* ai has chosen among moves of different value: some Empty cell loses for O
\* and the cell returned does not.
C4_Witness ==
  /\ AiCalled /\ ~Terminal(call.board)
  /\ AiMove # Unbound
  /\ \E sc \in {call.result.scores[i] : i \in DOMAIN call.result.scores} : sc[3] = -10
  /\ call.result.best_score = 0

\* C8 (as claimed): ai called on a board that is already won or already full
\* ends in an error and returns no move.
C8_TerminalBoardIsError ==
  (AiCalled /\ Terminal(call.board)) => AiMove = Unbound

\* C9: on the empty board with O the mover each of the 9 first moves scores
\* 0 (minimax after placing O on the cell, X to reply, returns 0), and ai
\* returns a corner or the center, with score 0.
C9_EmptyBoardOpening ==
  (AiCalled /\ call.board = EmptyBoard) =>
     /\ {<<sc[1], sc[2]>> : sc \in {call.result.scores[i] : i \in DOMAIN call.result.scores}}
          = Idx \X Idx
     /\ \A i \in DOMAIN call.result.scores : call.result.scores[i][3] = 0
     /\ AiMove \in {<<0, 0>>, <<0, 2>>, <<2, 0>>, <<2, 2>>, <<1, 1>>}
     /\ call.result.best_score = 0

\* The bot has opened the game: ai has returned from the empty board.
C9_Witness ==
  /\ AiCalled /\ call.board = EmptyBoard
  /\ Len(call.result.scores) = 9

\* The board [[O,O,-],[X,X,-],[-,-,-]].
Board10 ==
  [r \in Idx |-> [c \in Idx |->
     IF r = 0 /\ c \in {0, 1} THEN "O" ELSE IF r = 1 /\ c \in {0, 1} THEN "X" ELSE "-"]]

\* C10: on the board [[O,O,-],[X,X,-],[-,-,-]] with O the mover ai returns
\* (0,2), which completes the top row of O.
C10_TakesTheWin ==
  (AiCalled /\ call.board = Board10) =>
     /\ AiMove = <<0, 2>>
     /\ game_state([call.board EXCEPT ![AiMove[1]][AiMove[2]] = "O"]) = <<TRUE, "O">>

C10_Witness == AiCalled /\ call.board = Board10 /\ AiMove # Unbound

\* C2: whenever a call returns in the stepwise search, ai at the top or
\* minimax at the top or nested at any depth, for either value of
\* max_or_min, all 9 cells of the board hold the values they held when that
\* call was entered.
C2_BoardRestoredOnReturn == ret.fn # "none" => board = ret.entry

\* A nested call of minimax that ran its loop (its board was not terminal)
\* has just returned to a caller that is itself a nested minimax.
C2_Witness ==
  /\ ret.fn = "minimax"
  /\ Len(stack) >= 2
  /\ ~Terminal(ret.entry)
  /\ NumEmpty(ret.entry) >= 1

\* The calls in progress below the top-level call never outnumber the Empty
\* cells of the board the top-level call was entered on.
DepthBound == stack # <<>> => (Len(stack) - 1 <= NumEmpty(stack[1].entry))

\* The top-level call in progress is one the claim speaks of: minimax on any
\* board, or ai on a board that had an Empty cell when ai was entered.
Covered ==
  /\ stack # <<>>
  /\ stack[1].fn = "minimax" \/ NumEmpty(stack[1].entry) >= 1

\* C7: a call of minimax on any board, and a call of ai on a board with at
\* least one Empty cell, eventually returns, and the recursion is never
\* deeper than the number of Empty cells at the call.
C7_SearchReturns ==
  /\ []DepthBound
  /\ Covered ~> (pc = "done")

\* ai has returned from a board that was not terminal and had as many Empty
\* cells as the search is given.
C7_Witness ==
  /\ pc = "done"
  /\ ret.fn = "ai"
  /\ ~Terminal(board)
  /\ NumEmpty(board) = MaxEmptyFair

\* The last call was minimax, applied to call.board as a function.
MinimaxCalled == call.fn = "minimax"

\* C5 (as claimed): on every board that contains three X in a row minimax
\* returns -10, for either max_or_min and any depth; on every board that
\* contains three O in a row it returns +10; on every full board with no
\* completed line it returns 0.
C5_AsClaimed ==
  MinimaxCalled =>
     /\ HasLine(call.board, "X") => call.result.score = -10
     /\ HasLine(call.board, "O") => call.result.score = 10
     /\ (EmptyCells(call.board) = {} /\ ~HasLine(call.board, "X") /\ ~HasLine(call.board, "O"))
          => call.result.score = 0

\* C5 (amended): on every board with three X in a row and no three O in a
\* row minimax returns -10, for either max_or_min and any depth; on every
\* board with three O in a row and no three X in a row it returns +10; on
\* every full board with no completed line it returns 0.
C5_TerminalScores ==
  MinimaxCalled =>
     /\ (HasLine(call.board, "X") /\ ~HasLine(call.board, "O")) => call.result.score = -10
     /\ (HasLine(call.board, "O") /\ ~HasLine(call.board, "X")) => call.result.score = 10
     /\ (EmptyCells(call.board) = {} /\ ~HasLine(call.board, "X") /\ ~HasLine(call.board, "O"))
          => call.result.score = 0

\* minimax was called as the maximizing layer, with the largest depth
\* argument, on a board that X has won and that still has Empty cells.
C5_Witness ==
  /\ MinimaxCalled
  /\ call.args = <<MaxDepth, TRUE>>
  /\ HasLine(call.board, "X") /\ ~HasLine(call.board, "O")
  /\ NumEmpty(call.board) > MaxEvalEmpty
  /\ call.result.score = -10

\* The board with exactly line l filled with mark m and every other cell Empty.
LineBoard(l, m) == [r \in Idx |-> [c \in Idx |-> IF <<r, c>> \in l THEN m ELSE "-"]]

\* C6: game_state detects all 8 lines: on the board with exactly one line
\* filled with a mark m and every other cell Empty it returns (True, m), for
\* each of the 8 lines and both marks; and on every board it reports a win
\* exactly when some line holds three equal non-empty marks, the mark it
\* reports owning a completed line, and returns (False, None) otherwise.
C6_DetectsEveryLine ==
  call.fn = "game_state" =>
     /\ \A l \in Lines, m \in {"X", "O"} :
          call.board = LineBoard(l, m) => call.result = <<TRUE, m>>
     /\ call.result[1] = (HasLine(call.board, "X") \/ HasLine(call.board, "O"))
     /\ call.result[1] => (call.result[2] \in {"X", "O"} /\ HasLine(call.board, call.result[2]))
     /\ ~call.result[1] => call.result = NoWinner

\* game_state was applied to the board whose only marks are the three O of
\* the diagonal (0,2), (1,1), (2,0).
C6_Witness ==
  /\ call.fn = "game_state"
  /\ call.board = LineBoard({<<0, 2>>, <<1, 1>>, <<2, 0>>}, "O")
  /\ call.result = <<TRUE, "O">>

\* The scores ai computed at its last call, in loop order: <<row, col, score>>
\* with score what minimax returned after ai placed the symbol on (row, col).
AiScores == {call.result.scores[i] : i \in DOMAIN call.result.scores}

\* The number of cell (row, col) in row-major order.
CellNo(row, col) == 3 * row + col

\* C11: the move ai returns is the first one, in row-major order, among the
\* Empty cells of maximum score: ai scored every Empty cell, the returned
\* cell's score is the maximum of the scores, and every Empty cell that
\* precedes it in row-major order has a strictly smaller score.
C11_FirstOfTheBest ==
  (AiCalled /\ AiMove # Unbound) =>
     /\ {<<sc[1], sc[2]>> : sc \in AiScores} = EmptyCells(call.board)
     /\ \E sc \in AiScores :
          /\ <<sc[1], sc[2]>> = AiMove
          /\ sc[3] = call.result.best_score
     /\ \A sc \in AiScores :
          /\ sc[3] <= call.result.best_score
          /\ CellNo(sc[1], sc[2]) < CellNo(AiMove[1], AiMove[2])
               => sc[3] < call.result.best_score

\* ai has broken a tie on a board of the running game: a cell after the
\* returned one has the same score, and a cell before it a smaller one.
C11_Witness ==
  /\ AiCalled /\ ~Terminal(call.board) /\ AiMove # Unbound
  /\ \E sc \in AiScores :
       /\ CellNo(sc[1], sc[2]) > CellNo(AiMove[1], AiMove[2])
       /\ sc[3] = call.result.best_score
  /\ \E sc \in AiScores :
       /\ CellNo(sc[1], sc[2]) < CellNo(AiMove[1], AiMove[2])
       /\ sc[3] < call.result.best_score

\* The cells on which boards a and b differ.
ChangedCells(a, b) == {rc \in Idx \X Idx : a[rc[1]][rc[2]] # b[rc[1]][rc[2]]}

\* One iteration of the game loop seen on the real board: it writes one cell,
\* which was Empty, with the symbol of the player whose turn it was, and no
\* cell that held X or O has changed.
PlacementOnEmptyCell ==
  /\ \A rc \in Idx \X Idx :
       board[rc[1]][rc[2]] # "-" => board'[rc[1]][rc[2]] = board[rc[1]][rc[2]]
  /\ board' # board =>
       \E rc \in Idx \X Idx :
         /\ ChangedCells(board, board') = {rc}
         /\ board[rc[1]][rc[2]] = "-"
         /\ board'[rc[1]][rc[2]] = Mover.symbol

\* C14: every placement of the game loop on the real board, a person's move
\* accepted by make_play or the bot's move chosen by ai, writes to a cell
\* that is Empty at that moment; between turns a cell that holds X or O never
\* changes again.
C14_PlacementsOnEmptyCells == [][PlacementOnEmptyCell]_vars

\* The game is running after the bot has placed its second mark and the
\* person two: both kinds of placement have been made on a board with marks.
C14_Witness ==
  /\ pc = "loop"
  /\ call.fn = "ai"
  /\ NumEmpty(call.board) <= 6
  /\ NumEmpty(board) = NumEmpty(call.board) - 1

\* C16: minimax returns a value in {-10, 0, 10} for every board and both
\* values of max_or_min: never a sentinel (-10000, 10000) and never no value.
C16_ScoreRange ==
  MinimaxCalled =>
     /\ call.result.score \in {-10, 0, 10}
     /\ call.result.score \notin {LowScore, HighScore}

\* minimax was called as the minimizing layer on a board without a completed
\* line that has Empty cells: it ran its loop, starting from 10000.
C16_Witness ==
  /\ MinimaxCalled
  /\ call.args[2] = FALSE
  /\ ~Terminal(call.board)
  /\ NumEmpty(call.board) = MaxEvalEmpty
  /\ call.result.score \in {-10, 0, 10}

\* C19: the game loop calls ai only on boards that have no completed line
\* and at least one Empty cell, and ai returns with best_move assigned: the
\* program never ends in the UnboundLocalError of ai's return statement.
C19_AiOnRunningBoards ==
  /\ call.fn = "ai" =>
       /\ ~HasLine(call.board, "X") /\ ~HasLine(call.board, "O")
       /\ ~game_state(call.board)[1]
       /\ EmptyCells(call.board) # {}
       /\ AiMove # Unbound
  /\ pc # "crash"

\* The bot has made the last move of a game it opened: ai was called on a
\* board with one Empty cell.
C19_Witness ==
  /\ call.fn = "ai"
  /\ NumEmpty(call.board) = 1
  /\ AiMove # Unbound
  /\ pc \in {"won", "draw"}

\* ai has just chosen, for the bot, a move whose score is +10.
ForcedWinChosen == AiCalled /\ AiMove # Unbound /\ call.result.best_score = 10

\* The game has ended with game_state reporting three O in a row.
WonByO == pc = "won" /\ game_state(board) = <<TRUE, "O">>

\* C18: in the single-player game, once ai has chosen a move of score +10,
\* the game, whatever legal moves the person makes while the bot keeps
\* moving by ai, eventually ends with game_state reporting a win of O; it
\* does not end as a draw or as a win of X (an ended game stays as it is).
C18_ForcedWinIsWon == ForcedWinChosen ~> WonByO

\* ai has chosen a move of score +10 that does not win at once: the game
\* goes on with the person to move.
C18_Witness == ForcedWinChosen /\ pc = "loop"

\* The number of cells of b that hold mark m.
CountOf(b, m) == Cardinality({rc \in Idx \X Idx : b[rc[1]][rc[2]] = m})

\* C12 (as claimed): in every run, whatever names are typed, ai is called
\* only for the player whose symbol is O.
C12_SearchOnlyForO ==
  /\ call.fn = "ai" => call.symbol = "O"
  /\ \A i \in DOMAIN stack : stack[i].fn = "ai" => stack[i].symbol = "O"

\* C13 (as claimed): on every board of a game started from the empty board,
\* between turns and while the search runs, the number of X and the number
\* of O differ by at most 1.
C13_CountsBalanced ==
  CountOf(board, "X") - CountOf(board, "O") \in {-1, 0, 1}

\* The completed lines of board b.
CompletedLines(b) == {l \in Lines : Owns(b, "X", l) \/ Owns(b, "O", l)}

\* The marks that own a completed line of b.
Winners(b) == {m \in {"X", "O"} : HasLine(b, m)}

\* The board is a board of the game between turns, or a speculative board
\* of a search that was entered on a board of the running game (no
\* completed line, an Empty cell).
GameBoard == stack = <<>> \/ ~Terminal(stack[1].entry)

\* C15 (as claimed): every board of legal alternating play that stops at the
\* first win, and every speculative board the search visits, has at most one
\* completed line.
C15_AsClaimed == GameBoard => Cardinality(CompletedLines(board)) <= 1

\* C15 (amended): every such board has at most two completed lines, and two
\* completed lines belong to the same mark and cross in one cell.
C15_AtMostTwoLines ==
  GameBoard =>
     /\ Cardinality(CompletedLines(board)) <= 2
     /\ \A l1, l2 \in CompletedLines(board) :
          l1 # l2 => /\ Cardinality(l1 \cap l2) = 1
                     /\ \E m \in {"X", "O"} : Owns(board, m, l1) /\ Owns(board, m, l2)

\* A game has ended on a board with two completed lines.
C15_Witness ==
  /\ pc = "won" /\ stack = <<>>
  /\ Cardinality(CompletedLines(board)) = 2

\* game_state with every check for O made before any check for X.
GameStateOFirst(b) ==
  IF HasLine(b, "O") THEN <<TRUE, "O">>
  ELSE IF HasLine(b, "X") THEN <<TRUE, "X">>
  ELSE NoWinner

\* game_state with every check for X made before any check for O.
GameStateXFirst(b) ==
  IF HasLine(b, "X") THEN <<TRUE, "X">>
  ELSE IF HasLine(b, "O") THEN <<TRUE, "O">>
  ELSE NoWinner

\* C17: on every board of the game and every speculative board the search
\* visits, X and O do not both own a completed line, and game_state reports
\* what the checks report in any other order.
C17_OneWinner ==
  GameBoard =>
     /\ ~(HasLine(board, "X") /\ HasLine(board, "O"))
     /\ Cardinality(Winners(board)) <= 1
     /\ game_state(board) = GameStateOFirst(board)
     /\ game_state(board) = GameStateXFirst(board)

\* The search, entered on a board of the running game, is on a speculative
\* board two placements deep on which X has completed a line.
C17_Witness ==
  /\ Len(stack) >= 3
  /\ ~Terminal(stack[1].entry)
  /\ HasLine(board, "X")
  /\ game_state(board) = <<TRUE, "X">>

=============================================================================
